---- MODULE Spec2Model ----
(***************************************************************************)
(* Model of src/main.ts of git-tag-action: label validation, resolution of *)
(* the pull request of a commit, selection of the latest tag, version      *)
(* increment and tag publication, run by invocations of main that share    *)
(* one repository.                                                         *)
(*                                                                         *)
(* A tag name is a record [v, nums, pre]:                                  *)
(*   v    - the name starts with the letter "v"                            *)
(*   nums - the dot-separated numeric components that follow               *)
(*   pre  - 0 when there is no "-N" pre-release suffix, N otherwise        *)
(* "v1.2.3" is [v |-> TRUE, nums |-> <<1,2,3>>, pre |-> 0], "1.2" is       *)
(* [v |-> FALSE, nums |-> <<1,2>>, pre |-> 0], "" is EmptyName.            *)
(* An optional value (string | null) is a sequence of length at most one.  *)
(***************************************************************************)
EXTENDS Integers, Sequences, FiniteSets, TLC

\* ------------------------------------------------------------------ bounds
MaxTags == 2
MaxLabels == 3
MaxPRs == 2
NumInv == 2
PageSize == 2

\* ------------------------------------------------------- program constants
patch == "patch"
minor == "minor"
major == "major"
noRelease == "no-release"

\* faulty variant of validLabels: no-release is not a release label
validLabelsWithoutNoRelease == <<patch, minor, major>>

\* faulty variant of validLabels: a label that is no release type is listed
validLabelsWithBug == <<patch, minor, major, noRelease, "bug">>

validLabels == <<patch, minor, major, noRelease>>

\* labels a pull request may carry: the release labels and one unrelated label
otherLabel == "bug"
LabelNames == {patch, minor, major, noRelease, otherLabel}

MsgMissingLabel == "Please set one of the following label : patch, minor, major, no-release"
MsgAmbiguousLabel == "Exactly one label must be set"
MsgNoPullRequest == "Cannot find any Pull Request associated with sha"
MsgMultiplePullRequests == "Multiple Pull Requests found for sha"
MsgIncrementFailure == "failed to increment tag"
MsgReferenceExists == "Reference already exists"
MsgCollaborator == "collaborator failure"

\* ------------------------------------------------------------ sequences
Range(s) == {s[k] : k \in 1..Len(s)}

Includes(s, x) == \E k \in 1..Len(s) : s[k] = x

DistinctSeqs(S, n) ==
  UNION {{s \in [1..k -> S] : \A a, b \in 1..k : a # b => s[a] # s[b]} : k \in 0..n}

\* ---------------------------------------------------------------- semver
Name(v, a, b, c, p) == [v |-> v, nums |-> <<a, b, c>>, pre |-> p]

EmptyName == [v |-> FALSE, nums |-> <<>>, pre |-> 0]

\* semver.valid(name) !== null: an optional "v", exactly three numeric
\* components, an optional pre-release
SemverValid(name) == Len(name.nums) = 3

Sign(a, b) == IF a < b THEN -1 ELSE IF a > b THEN 1 ELSE 0

\* SemVer.comparePre: a version without pre-release is greater than the same
\* version with one
ComparePre(x, y) ==
  IF x.pre = 0 /\ y.pre # 0 THEN 1
  ELSE IF x.pre # 0 /\ y.pre = 0 THEN -1
  ELSE Sign(x.pre, y.pre)

\* semver.compare(x, y): major, minor, patch, then the pre-release; the
\* leading "v" plays no part
SemverCompare(x, y) ==
  IF x.nums[1] # y.nums[1] THEN Sign(x.nums[1], y.nums[1])
  ELSE IF x.nums[2] # y.nums[2] THEN Sign(x.nums[2], y.nums[2])
  ELSE IF x.nums[3] # y.nums[3] THEN Sign(x.nums[3], y.nums[3])
  ELSE ComparePre(x, y)

\* semver.inc(tag, bump): null for a tag that is not valid or a bump that is
\* no release type; the result is formatted without "v" and without
\* pre-release. A pre-release of X.0.0 bumps to X.0.0 under major, a
\* pre-release of X.Y.0 to X.Y.0 under minor, a pre-release of X.Y.Z to X.Y.Z
\* under patch.
SemverInc(tag, bump) ==
  IF ~SemverValid(tag) \/ bump \notin {major, minor, patch} THEN <<>>
  ELSE LET a == tag.nums[1]
           b == tag.nums[2]
           c == tag.nums[3]
           p == tag.pre
       IN  IF bump = major
             THEN <<Name(FALSE, IF b # 0 \/ c # 0 \/ p = 0 THEN a + 1 ELSE a, 0, 0, 0)>>
           ELSE IF bump = minor
             THEN <<Name(FALSE, a, IF c # 0 \/ p = 0 THEN b + 1 ELSE b, 0, 0)>>
           ELSE <<Name(FALSE, a, b, IF p = 0 THEN c + 1 ELSE c, 0)>>

\* ---------------------------------------------------------- label policy
IsValidLabel(l) == Includes(validLabels, l)

\* pr.labels.filter(it => validLabels.includes(it.name))
RECURSIVE FilterLabels(_)
FilterLabels(labels) ==
  IF labels = <<>> THEN <<>>
  ELSE IF IsValidLabel(Head(labels)) THEN <<Head(labels)>> \o FilterLabels(Tail(labels))
       ELSE FilterLabels(Tail(labels))

\* validatePullRequestLabel: the message of the Error it throws, or <<>>
validatePullRequestLabel(labels) ==
  IF ~\E k \in 1..Len(labels) : IsValidLabel(labels[k]) THEN <<MsgMissingLabel>>
  ELSE IF Len(FilterLabels(labels)) # 1 THEN <<MsgAmbiguousLabel>>
  ELSE <<>>

\* publishGitTag line 94: the first label of the pull request that is a
\* release label (read only after validation passed)
BumpOf(labels) == FilterLabels(labels)[1]

\* ------------------------------------------------------------ tag selector
\* Array.prototype.sort with the comparator semver.compare: ascending and
\* stable (insertion after every element that does not compare greater)
RECURSIVE Insert(_, _)
Insert(sorted, t) ==
  IF sorted = <<>> THEN <<t>>
  ELSE IF SemverCompare(Head(sorted).name, t.name) > 0 THEN <<t>> \o sorted
       ELSE <<Head(sorted)>> \o Insert(Tail(sorted), t)

RECURSIVE SortTags(_)
SortTags(s) ==
  IF s = <<>> THEN <<>>
  ELSE Insert(SortTags(SubSeq(s, 1, Len(s) - 1)), s[Len(s)])

\* the map function handed to octokit.paginate: applied to each page
RECURSIVE FilterPage(_)
FilterPage(pageTags) ==
  IF pageTags = <<>> THEN <<>>
  ELSE IF SemverValid(Head(pageTags).name) THEN <<Head(pageTags)>> \o FilterPage(Tail(pageTags))
       ELSE FilterPage(Tail(pageTags))

\* faulty variant of SelectLatest: the list is not sorted before its first
\* element is taken
SelectFirstListed(tagsList) ==
  IF Len(tagsList) = 0 THEN <<>> ELSE <<tagsList[1].name>>

\* getLatestTag lines 64-68, on the concatenation of the filtered pages
SelectLatest(tagsList) ==
  LET sorted == SortTags(tagsList)
  IN  IF Len(sorted) = 0 THEN <<>> ELSE <<sorted[1].name>>

\* faulty variant of incrementTag: the bump is not passed on and every
\* release is a patch release
incrementTagAlwaysPatch(tag, label) ==
  LET newTag == SemverInc(tag, patch)
  IN  IF newTag = <<>> THEN [error |-> <<MsgIncrementFailure>>, value |-> <<>>]
      ELSE [error |-> <<>>, value |-> newTag]

\* incrementTag: [error, value], the message of the Error it throws or the
\* new tag it returns
incrementTag(tag, bump) ==
  LET newTag == SemverInc(tag, bump)
  IN  IF newTag = <<>> THEN [error |-> <<MsgIncrementFailure>>, value |-> <<>>]
      ELSE [error |-> <<>>, value |-> newTag]

\* ------------------------------------------------------------------ state
VARIABLES
  tags,        \* the repository's tag references, in listing order: [name, sha]
  initialTag,  \* the input initial_tag
  pc,          \* per invocation: the await main is suspended at
  prs,         \* per invocation: <<prList.data.length>> once the lookup answered
  bump,        \* per invocation: publishGitTag's bump
  acc,         \* per invocation: the filtered pages paginate has collected so far
  page,        \* per invocation: the page paginate is waiting for (0: none)
  latestTag,   \* per invocation: publishGitTag's latestTag, once listed
  newTag,      \* per invocation: publishGitTag's newTag, once computed
  output,      \* per invocation: the values given to core.setOutput('tag', _)
  reports,     \* per invocation: the messages given to core.setFailed
  exitCode,    \* per invocation: process.exitCode (core.setFailed sets 1)
  raised,      \* per invocation: the values thrown inside main's try block
  calls,       \* per invocation: the collaborator calls made, in order
  createLog,   \* the createRef calls that succeeded: [inv, name, sha]
  selTags,     \* getLatestTag alone: the tag listing it is run on
  selOut,      \* getLatestTag alone: <<>>, then <<[value |-> what it returned,
               \* perPage |-> the size of the pages it was served]>>
  lblLabels,   \* label validation alone: the labels of the pull request
  lblOut       \* label validation alone: <<>>, then <<[error, bump]>>

mainVars == <<tags, initialTag, pc, prs, bump, acc, page, latestTag, newTag, output,
              reports, exitCode, raised, calls, createLog>>
selVars == <<selTags, selOut>>
lblVars == <<lblLabels, lblOut>>
vars == <<mainVars, selVars, lblVars>>

Inv == 1..NumInv

\* github.context.sha: each invocation is triggered by its own commit; the
\* tags the repository starts with point at an older commit, 0
ContextSha(i) == i

\* names a repository may hold before the first invocation
VBad == [v |-> TRUE, nums |-> <<>>, pre |-> 1]
TwoPart == [v |-> FALSE, nums |-> <<1, 2>>, pre |-> 0]
Components == {0, 1}
PreReleases == {0, 1}
SemverNames ==
  {Name(v, a, b, c, p) : v \in BOOLEAN, a \in Components, b \in Components,
                         c \in Components, p \in PreReleases}
TagNames == SemverNames \cup {VBad, TwoPart}

\* the tag listings a repository starts with: none, only names that are no
\* semantic versions, one version, two names of the same version, a
\* pre-release below a release, and versions mixed with other names
InitialRepos ==
  { <<>>,
    <<VBad, TwoPart>>,
    <<Name(FALSE, 1, 4, 2, 0)>>,
    <<Name(TRUE, 1, 0, 0, 0), Name(FALSE, 1, 0, 0, 0)>>,
    <<Name(FALSE, 1, 0, 0, 1), Name(FALSE, 1, 1, 0, 0)>>,
    <<Name(FALSE, 1, 2, 3, 0), Name(FALSE, 1, 3, 0, 0), VBad, Name(FALSE, 2, 0, 0, 0)>> }
InitialTags == {Name(FALSE, 0, 1, 0, 0), VBad}

LabelLists == DistinctSeqs(LabelNames, MaxLabels)

\* the label lists of the pull requests the invocations meet: no release
\* label, each release label alone or beside another label, two release labels
PrLabelLists ==
  { <<>>, <<otherLabel>>,
    <<patch>>, <<otherLabel, minor>>, <<major, otherLabel>>, <<noRelease>>,
    <<patch, minor>>, <<noRelease, otherLabel, major>> }

\* a listing of the given names, every tag at the older commit 0
Listing(names) == [k \in 1..Len(names) |-> [name |-> names[k], sha |-> 0]]

InitInvocations ==
  /\ pc = [i \in Inv |-> "idle"]
  /\ prs = [i \in Inv |-> <<>>]
  /\ bump = [i \in Inv |-> ""]
  /\ acc = [i \in Inv |-> <<>>]
  /\ page = [i \in Inv |-> 0]
  /\ latestTag = [i \in Inv |-> <<>>]
  /\ newTag = [i \in Inv |-> <<>>]
  /\ output = [i \in Inv |-> <<>>]
  /\ reports = [i \in Inv |-> <<>>]
  /\ exitCode = [i \in Inv |-> 0]
  /\ raised = [i \in Inv |-> <<>>]
  /\ calls = [i \in Inv |-> <<>>]
  /\ createLog = <<>>

InitSel == selTags = <<>> /\ selOut = <<>>

InitLbl == lblLabels = <<>> /\ lblOut = <<>>

Init ==
  /\ \E names \in InitialRepos : tags = Listing(names)
  /\ initialTag \in InitialTags
  /\ InitInvocations
  /\ InitSel
  /\ InitLbl

\* ------------------------------------------------------------------- main
Error(msg) == [isError |-> TRUE, message |-> msg]

\* what a rejected collaborator call throws: an Error or any other value
CollaboratorErrors == {[isError |-> e, message |-> MsgCollaborator] : e \in BOOLEAN}

\* faulty variant of Catch: the failure is caught where it is raised and
\* reported, and the invocation carries on from the await it was at
CatchAndCarryOn(i, err) ==
  /\ raised' = [raised EXCEPT ![i] = Append(@, err)]
  /\ reports' = [reports EXCEPT ![i] = IF err.isError THEN Append(@, err.message) ELSE @]
  /\ exitCode' = [exitCode EXCEPT ![i] = IF err.isError THEN 1 ELSE @]
  /\ pc' = pc

\* main lines 131-134: the catch block reports the message of an Error and
\* lets any other thrown value go; main then returns
Catch(i, err) ==
  /\ raised' = [raised EXCEPT ![i] = Append(@, err)]
  /\ reports' = [reports EXCEPT ![i] = IF err.isError THEN Append(@, err.message) ELSE @]
  /\ exitCode' = [exitCode EXCEPT ![i] = IF err.isError THEN 1 ELSE @]
  /\ pc' = [pc EXCEPT ![i] = "done"]

\* main lines 113-130 up to the first await: the payload decides the mode
Start(i) ==
  /\ pc[i] = "idle"
  /\ \E payload \in BOOLEAN :
       IF payload
         THEN /\ calls' = [calls EXCEPT ![i] = Append(@, "pulls.get")]
              /\ pc' = [pc EXCEPT ![i] = "pulls.get"]
         ELSE /\ calls' = [calls EXCEPT ![i] = Append(@, "commits.pulls")]
              /\ pc' = [pc EXCEPT ![i] = "commits.pulls"]
  /\ UNCHANGED <<tags, initialTag, prs, bump, acc, page, latestTag, newTag, output, reports,
                 exitCode, raised, createLog, selVars, lblVars>>

\* faulty variant of ValidateOnly: the else of line 127 is missing and a
\* validated pull request goes on into publishGitTag
ValidateOnlyThenPublish(i) ==
  /\ pc[i] = "pulls.get"
  /\ \/ /\ \E err \in CollaboratorErrors : Catch(i, err)
        /\ UNCHANGED calls
     \/ \E labels \in PrLabelLists :
          LET thrown == validatePullRequestLabel(labels)
          IN  IF thrown # <<>>
                THEN Catch(i, Error(thrown[1])) /\ UNCHANGED calls
                ELSE /\ calls' = [calls EXCEPT ![i] = Append(@, "commits.pulls")]
                     /\ pc' = [pc EXCEPT ![i] = "commits.pulls"]
                     /\ UNCHANGED <<raised, reports, exitCode>>
  /\ UNCHANGED <<tags, initialTag, prs, bump, acc, page, latestTag, newTag, output,
                 createLog, selVars, lblVars>>

\* main lines 119-124: pulls.get answers, the labels are validated, main ends
ValidateOnly(i) ==
  /\ pc[i] = "pulls.get"
  /\ \/ \E err \in CollaboratorErrors : Catch(i, err)
     \/ \E labels \in PrLabelLists :
          LET thrown == validatePullRequestLabel(labels)
          IN  IF thrown # <<>>
                THEN Catch(i, Error(thrown[1]))
                ELSE /\ pc' = [pc EXCEPT ![i] = "done"]
                     /\ UNCHANGED <<raised, reports, exitCode>>
  /\ UNCHANGED <<tags, initialTag, prs, bump, acc, page, latestTag, newTag, output, calls,
                 createLog, selVars, lblVars>>

\* faulty variant of pullRequestFromCommitSha: of several pull requests the
\* first is taken
pullRequestFromCommitShaFirst(prList) ==
  IF Len(prList) = 0 THEN [error |-> <<MsgNoPullRequest>>, pr |-> <<>>]
  ELSE [error |-> <<>>, pr |-> <<prList[1]>>]

\* pullRequestFromCommitSha lines 42-50, on the answer of the lookup:
\* [error, pr], the message of the Error thrown or the pull request returned
pullRequestFromCommitSha(prList) ==
  IF Len(prList) = 0 THEN [error |-> <<MsgNoPullRequest>>, pr |-> <<>>]
  ELSE IF Len(prList) # 1 THEN [error |-> <<MsgMultiplePullRequests>>, pr |-> <<>>]
  ELSE [error |-> <<>>, pr |-> <<prList[1]>>]

\* faulty variant of IsSkip: the label is compared with a misspelt name
IsSkipMisspelt(label) == label = "norelease"

\* publishGitTag line 97
IsSkip(label) == label = noRelease

\* the answers of "list pull requests associated with a commit": a pull
\* request is represented by the names of its labels
PrLists == {[k \in 1..n |-> labels] : n \in 0..MaxPRs, labels \in PrLabelLists}

\* publishGitTag lines 90-102: the lookup answers, the pull request is
\* resolved, its labels validated, the bump read; no-release returns "" to
\* main, which sets the output; otherwise the tag listing is requested
ResolvePullRequest(i) ==
  /\ pc[i] = "commits.pulls"
  /\ \/ /\ \E err \in CollaboratorErrors : Catch(i, err)
        /\ UNCHANGED <<prs, bump, page, output, calls>>
     \/ \E prList \in PrLists :
          LET found == pullRequestFromCommitSha(prList)
              thrown == IF found.error # <<>> THEN found.error
                        ELSE validatePullRequestLabel(found.pr[1])
          IN  /\ prs' = [prs EXCEPT ![i] = <<Len(prList)>>]
              /\ IF thrown # <<>>
                THEN /\ Catch(i, Error(thrown[1]))
                     /\ UNCHANGED <<bump, page, output, calls>>
                ELSE /\ bump' = [bump EXCEPT ![i] = BumpOf(found.pr[1])]
                     /\ IF IsSkip(bump'[i])
                          THEN /\ output' = [output EXCEPT ![i] = Append(@, EmptyName)]
                               /\ pc' = [pc EXCEPT ![i] = "done"]
                               /\ UNCHANGED <<page, calls>>
                          ELSE /\ calls' = [calls EXCEPT ![i] = Append(@, "listTags")]
                               /\ page' = [page EXCEPT ![i] = 1]
                               /\ pc' = [pc EXCEPT ![i] = "listTags"]
                               /\ UNCHANGED output
                     /\ UNCHANGED <<raised, reports, exitCode>>
  /\ UNCHANGED <<tags, initialTag, acc, latestTag, newTag, createLog, selVars, lblVars>>

Min(a, b) == IF a < b THEN a ELSE b

\* the page p of the tag listing, as the repository stands when it is served
PageOf(p) == SubSeq(tags, (p - 1) * PageSize + 1, Min(p * PageSize, Len(tags)))

HasNextPage(p) == p * PageSize < Len(tags)

\* faulty variant of NextTag: the initial tag is incremented like a base
NextTagIncrementsInitial(latest, label) ==
  incrementTag(IF latest = <<>> THEN initialTag ELSE latest[1], label)

\* publishGitTag lines 102-106: latestTag to newTag; [error, value]
NextTag(latest, label) ==
  IF latest = <<>> THEN [error |-> <<>>, value |-> <<initialTag>>]
  ELSE incrementTag(latest[1], label)

\* getLatestTag lines 54-68 and publishGitTag lines 102-108: one page of the
\* listing answers and is filtered; after the last page the list is sorted,
\* the latest tag chosen, the new tag computed and createRef requested
ListTagsPage(i) ==
  /\ pc[i] = "listTags"
  /\ \/ /\ \E err \in CollaboratorErrors : Catch(i, err)
        /\ acc' = [acc EXCEPT ![i] = <<>>]
        /\ page' = [page EXCEPT ![i] = 0]
        /\ UNCHANGED <<latestTag, newTag, calls>>
     \/ LET tagsList == acc[i] \o FilterPage(PageOf(page[i]))
        IN  IF HasNextPage(page[i])
              THEN /\ acc' = [acc EXCEPT ![i] = tagsList]
                   /\ page' = [page EXCEPT ![i] = @ + 1]
                   /\ UNCHANGED <<pc, latestTag, newTag, calls, raised, reports, exitCode>>
              ELSE LET latest == SelectLatest(tagsList)
                       next == NextTag(latest, bump[i])
                   IN  /\ acc' = [acc EXCEPT ![i] = <<>>]
                       /\ page' = [page EXCEPT ![i] = 0]
                       /\ latestTag' = [latestTag EXCEPT ![i] = latest]
                       /\ IF next.error # <<>>
                            THEN /\ Catch(i, Error(next.error[1]))
                                 /\ UNCHANGED <<newTag, calls>>
                            ELSE /\ newTag' = [newTag EXCEPT ![i] = next.value]
                                 /\ calls' = [calls EXCEPT ![i] = Append(@, "createRef")]
                                 /\ pc' = [pc EXCEPT ![i] = "createRef"]
                                 /\ UNCHANGED <<raised, reports, exitCode>>
  /\ UNCHANGED <<tags, initialTag, prs, bump, output, createLog, selVars, lblVars>>

TagExists(name) == \E k \in 1..Len(tags) : tags[k].name = name

\* faulty variant of RefName: the reference is refs/tags/v<tag>
RefNameWithV(tag) == [tag EXCEPT !.v = TRUE]

\* publishTag line 76: the reference created for a tag is refs/tags/<tag>
RefName(tag) == tag

\* faulty variant of OnConflict: the rejection is caught and ignored, the
\* invocation goes on as if the tag had been created
OnConflictIgnored(i) ==
  /\ output' = [output EXCEPT ![i] = Append(@, newTag[i][1])]
  /\ pc' = [pc EXCEPT ![i] = "done"]
  /\ UNCHANGED <<tags, createLog, raised, reports, exitCode>>

\* faulty variant of OnConflict: on a rejection the existing reference is
\* moved to the commit of the invocation (a forced update)
OnConflictMovesTag(i) ==
  /\ tags' = [k \in 1..Len(tags) |->
               IF tags[k].name = RefName(newTag[i][1])
                 THEN [tags[k] EXCEPT !.sha = ContextSha(i)] ELSE tags[k]]
  /\ output' = [output EXCEPT ![i] = Append(@, newTag[i][1])]
  /\ pc' = [pc EXCEPT ![i] = "done"]
  /\ UNCHANGED <<createLog, raised, reports, exitCode>>

\* publishTag lines 74-78 when createRef rejects a reference that exists:
\* the Error goes up to main's catch block
OnConflict(i) ==
  /\ Catch(i, Error(MsgReferenceExists))
  /\ UNCHANGED <<tags, output, createLog>>

\* faulty variant of PublishSha: the tag is put on the older commit the
\* existing tags point at instead of the commit of the invocation
PublishShaOfOlderCommit(i) == 0

\* publishTag line 77: the commit handed to createRef
PublishSha(i) == ContextSha(i)

\* publishTag lines 74-78, publishGitTag line 110 and main line 129:
\* createRef answers; it rejects a reference that exists, otherwise the
\* reference is created at the commit given, newTag is returned and main
\* sets the output
publishTag(i) ==
  /\ pc[i] = "createRef"
  /\ \/ /\ \E err \in CollaboratorErrors : Catch(i, err)
        /\ UNCHANGED <<tags, output, createLog>>
     \/ LET ref == [name |-> RefName(newTag[i][1]), sha |-> PublishSha(i)]
        IN  IF TagExists(ref.name)
              THEN OnConflict(i)
              ELSE /\ tags' = Append(tags, ref)
                   /\ createLog' = Append(createLog, [inv |-> i, name |-> ref.name, sha |-> ref.sha])
                   /\ output' = [output EXCEPT ![i] = Append(@, newTag[i][1])]
                   /\ pc' = [pc EXCEPT ![i] = "done"]
                   /\ UNCHANGED <<raised, reports, exitCode>>
  /\ UNCHANGED <<initialTag, prs, bump, acc, page, latestTag, newTag, calls, selVars, lblVars>>

Next ==
  \E i \in Inv :
    \/ Start(i)
    \/ ValidateOnly(i)
    \/ ResolvePullRequest(i)
    \/ ListTagsPage(i)
    \/ publishTag(i)

Spec == Init /\ [][Next]_vars

\* ------------------------------------------ invocations one after another
\* main starts only when no other invocation is running
StartAlone(i) ==
  /\ \A j \in Inv : pc[j] \in {"idle", "done"}
  /\ Start(i)

NextSequential ==
  \E i \in Inv :
    \/ StartAlone(i)
    \/ ValidateOnly(i)
    \/ ResolvePullRequest(i)
    \/ ListTagsPage(i)
    \/ publishTag(i)

SpecSequential == Init /\ [][NextSequential]_vars

\* ---------------------------------------------------- getLatestTag alone
\* the pages octokit.paginate is served for a listing that does not change
RECURSIVE Pages(_, _)
Pages(listing, size) ==
  IF Len(listing) <= size THEN <<listing>>
  ELSE <<SubSeq(listing, 1, size)>> \o Pages(SubSeq(listing, size + 1, Len(listing)), size)

\* faulty variant of Paginate: only the first page is requested
PaginateFirstPage(pages) == FilterPage(Head(pages))

\* octokit.paginate with the map function: the filtered pages, concatenated
RECURSIVE Paginate(_)
Paginate(pages) ==
  IF pages = <<>> THEN <<>>
  ELSE FilterPage(Head(pages)) \o Paginate(Tail(pages))

\* getLatestTag lines 53-69, the listing served in pages of the given size
getLatestTagPaged(listing, size) == SelectLatest(Paginate(Pages(listing, size)))

\* getLatestTag lines 53-69
getLatestTag(listing) == getLatestTagPaged(listing, PageSize)

InitSelect ==
  /\ tags = <<>>
  /\ initialTag = EmptyName
  /\ InitInvocations
  /\ InitLbl
  /\ \E names \in DistinctSeqs(TagNames, MaxTags) : selTags = Listing(names)
  /\ selOut = <<>>

RunGetLatestTag ==
  /\ selOut = <<>>
  /\ \E size \in 1..PageSize :
       selOut' = <<[value |-> getLatestTagPaged(selTags, size), perPage |-> size]>>
  /\ UNCHANGED <<mainVars, lblVars, selTags>>

SpecSelect == InitSelect /\ [][RunGetLatestTag]_vars

\* ------------------------------------------------ label validation alone
InitLabel ==
  /\ tags = <<>>
  /\ initialTag = EmptyName
  /\ InitInvocations
  /\ InitSel
  /\ lblLabels \in LabelLists
  /\ lblOut = <<>>

\* publishGitTag lines 92-94: validation, then the bump
RunValidate ==
  /\ lblOut = <<>>
  /\ LET thrown == validatePullRequestLabel(lblLabels)
     IN  lblOut' = <<[error |-> thrown,
                      bump |-> IF thrown = <<>> THEN <<BumpOf(lblLabels)>> ELSE <<>>]>>
  /\ UNCHANGED <<mainVars, selVars, lblLabels>>

SpecLabel == InitLabel /\ [][RunValidate]_vars

\* ================================================================ claims
ReleaseLabels == {"patch", "minor", "major", "no-release"}

\* the names of a listing that are valid semantic versions
ValidNames(listing) == {listing[k].name : k \in {j \in 1..Len(listing) : SemverValid(listing[j].name)}}

\* C1: for every set of tag names getLatestTag returns the maximum, in
\* semantic-version order, of the names that are valid semantic versions,
\* and null exactly when no name is one (the claim as stated; the code
\* returns the minimum).
C1_LatestIsMaximum ==
  selOut # <<>> =>
    LET out == selOut[1].value
        valid == ValidNames(selTags)
    IN  /\ (out = <<>>) <=> (valid = {})
        /\ out # <<>> =>
             /\ out[1] \in valid
             /\ \A n \in valid : SemverCompare(n, out[1]) <= 0

\* the positions of the release labels in a label list
ReleasePositions(labels) == {k \in 1..Len(labels) : labels[k] \in ReleaseLabels}

\* C2: validation succeeds if and only if exactly one label of the pull
\* request is in {patch, minor, major, no-release}; with none it throws the
\* missing-label error, with two or more the ambiguous-label error; the
\* other labels play no part; on success the bump is that single label.
C2_ExactlyOneReleaseLabel ==
  lblOut # <<>> =>
    LET at == ReleasePositions(lblLabels)
        n == Cardinality(at)
        out == lblOut[1]
    IN  /\ (out.error = <<>>) <=> (n = 1)
        /\ n = 0 => out.error = <<MsgMissingLabel>>
        /\ n >= 2 => out.error = <<MsgAmbiguousLabel>>
        /\ n = 1 => \A k \in at : out.bump = <<lblLabels[k]>>
        /\ n # 1 => out.bump = <<>>

\* C2 witness: a pull request with no-release beside another label passes
C2_Witness ==
  /\ lblOut # <<>>
  /\ lblOut[1].error = <<>>
  /\ lblOut[1].bump = <<noRelease>>
  /\ Len(lblLabels) >= 2

\* the createRef calls of invocation i that succeeded
CreatedBy(i) == {k \in 1..Len(createLog) : createLog[k].inv = i}

\* C3: an invocation whose pull request carries the label no-release skips:
\* it ends without failure after the lookup alone; the tag listing is never
\* requested, no latest tag and no new tag is computed, no tag is created.
C3_NoReleaseSkips ==
  \A i \in Inv :
    bump[i] = "no-release" =>
      /\ pc[i] = "done"
      /\ calls[i] = <<"commits.pulls">>
      /\ page[i] = 0 /\ acc[i] = <<>>
      /\ latestTag[i] = <<>> /\ newTag[i] = <<>>
      /\ CreatedBy(i) = {}
      /\ raised[i] = <<>> /\ exitCode[i] = 0

\* C3 witness: a skip in a repository that holds semantic-version tags
C3_Witness ==
  \E i \in Inv : bump[i] = "no-release" /\ pc[i] = "done" /\ ValidNames(tags) # {}

\* C4: when the commit has no associated pull request the invocation fails
\* with the no-pull-request error, when it has two or more with the
\* multiple-pull-requests error; no pull request is picked, the tags are not
\* listed and createRef is never called.
C4_OnePullRequestOrFail ==
  \A i \in Inv :
    (prs[i] # <<>> /\ prs[i][1] # 1) =>
      LET msg == IF prs[i][1] = 0 THEN MsgNoPullRequest ELSE MsgMultiplePullRequests
      IN  /\ pc[i] = "done"
          /\ raised[i] = <<[isError |-> TRUE, message |-> msg]>>
          /\ reports[i] = <<msg>> /\ exitCode[i] = 1
          /\ bump[i] = ""
          /\ calls[i] = <<"commits.pulls">>
          /\ latestTag[i] = <<>> /\ newTag[i] = <<>> /\ output[i] = <<>>
          /\ CreatedBy(i) = {}

\* C4 witness: one invocation found no pull request, another found two
C4_Witness ==
  \E i, j \in Inv : prs[i] = <<0>> /\ prs[j] = <<2>> /\ pc[i] = "done" /\ pc[j] = "done"

\* the step of invocation i that computes its new tag
ComputesNewTag(i) == newTag[i] = <<>> /\ newTag'[i] # <<>>

\* C5: in a merge invocation with a label in {patch, minor, major}, when the
\* listing ends and no tag of the repository is a valid semantic version,
\* the tag to publish is initial_tag verbatim whatever the label; when a
\* valid semantic-version tag exists the tag to publish is the increment of
\* the latest tag found and initial_tag is not consulted; the tag created is
\* the tag computed.
C5_BootstrapUsesInitialTag ==
  [][\A i \in Inv :
       /\ ComputesNewTag(i) =>
            /\ bump[i] \in {"patch", "minor", "major"}
            /\ ValidNames(tags) = {} =>
                 latestTag'[i] = <<>> /\ newTag'[i] = <<initialTag>>
            /\ ValidNames(tags) # {} =>
                 /\ latestTag'[i] # <<>>
                 /\ latestTag'[i][1] \in ValidNames(tags)
                 /\ newTag'[i] = SemverInc(latestTag'[i][1], bump[i])
       /\ CreatedBy(i)' # CreatedBy(i) =>
            createLog'[Len(createLog')].name = newTag[i][1]
    ]_vars

\* C5 witness: the initial tag is about to be published in a repository
\* that holds tags, none of them a semantic version
C5_Witness ==
  \E i \in Inv :
    /\ pc[i] = "createRef"
    /\ bump[i] = "major"
    /\ latestTag[i] = <<>>
    /\ newTag[i] = <<initialTag>>
    /\ tags # <<>> /\ ValidNames(tags) = {}

\* the version reached from base by incrementing exactly the component the
\* label names and setting the less significant components to zero
ExactBump(base, label) ==
  IF label = "major" THEN <<base.nums[1] + 1, 0, 0>>
  ELSE IF label = "minor" THEN <<base.nums[1], base.nums[2] + 1, 0>>
  ELSE <<base.nums[1], base.nums[2], base.nums[3] + 1>>

\* C6 as stated: when a base tag exists and the label is patch, minor or
\* major, the new tag is the base with exactly the component the label names
\* incremented by one and the less significant components zero, and it is
\* strictly greater than the base.
C6_ExactIncrement ==
  \A i \in Inv :
    (newTag[i] # <<>> /\ latestTag[i] # <<>>) =>
      /\ newTag[i][1].nums = ExactBump(latestTag[i][1], bump[i])
      /\ SemverCompare(newTag[i][1], latestTag[i][1]) > 0

\* C6 amended: the new tag is strictly greater than the base and carries no
\* pre-release; when the base carries no pre-release it is the base with
\* exactly the component the label names incremented by one and the less
\* significant components zero.
C6_IncrementOfRelease ==
  \A i \in Inv :
    (newTag[i] # <<>> /\ latestTag[i] # <<>>) =>
      /\ bump[i] \in {"patch", "minor", "major"}
      /\ SemverValid(newTag[i][1]) /\ newTag[i][1].pre = 0
      /\ SemverCompare(newTag[i][1], latestTag[i][1]) > 0
      /\ latestTag[i][1].pre = 0 =>
           newTag[i][1].nums = ExactBump(latestTag[i][1], bump[i])

\* C6 witness: latest tag 1.4.2 with the label major gives 2.0.0
C6_Witness ==
  \E i \in Inv :
    /\ latestTag[i] = <<[v |-> FALSE, nums |-> <<1, 4, 2>>, pre |-> 0]>>
    /\ bump[i] = "major"
    /\ newTag[i] = <<[v |-> FALSE, nums |-> <<2, 0, 0>>, pre |-> 0]>>
    /\ CreatedBy(i) # {}

\* C7 as stated: the output tag, whenever an invocation emits it, is the
\* name of a tag this invocation created; an invocation that fails and an
\* invocation in validate-only mode emit no output.
C7_OutputIsCreatedTag ==
  \A i \in Inv :
    /\ output[i] # <<>> =>
         \E k \in CreatedBy(i) : createLog[k].name = output[i][1]
    /\ raised[i] # <<>> => output[i] = <<>>
    /\ (calls[i] # <<>> /\ calls[i][1] = "pulls.get") => output[i] = <<>>

\* C7 amended: the output tag is emitted at most once; it is the name of a
\* tag this invocation created, or the empty string when the invocation
\* skipped the release for the label no-release; an invocation that fails
\* and an invocation in validate-only mode emit no output.
C7_OutputIsCreatedTagOrEmpty ==
  \A i \in Inv :
    /\ Len(output[i]) <= 1
    /\ output[i] # <<>> =>
         IF bump[i] = "no-release"
           THEN output[i] = <<[v |-> FALSE, nums |-> <<>>, pre |-> 0]>> /\ CreatedBy(i) = {}
           ELSE /\ output[i] = newTag[i]
                /\ \E k \in CreatedBy(i) : createLog[k].name = output[i][1]
                /\ \E k \in 1..Len(tags) : tags[k].name = output[i][1]
    /\ raised[i] # <<>> => output[i] = <<>>
    /\ (calls[i] # <<>> /\ calls[i][1] = "pulls.get") => output[i] = <<>>

\* C7 witness: one invocation emitted the tag it created, another the empty
\* string of a skipped release
C7_Witness ==
  \E i, j \in Inv :
    /\ output[i] # <<>> /\ CreatedBy(i) # {} /\ output[i] = newTag[i]
    /\ output[j] = <<EmptyName>> /\ bump[j] = "no-release"

\* C8: every failure raised during an invocation ends it with exactly one
\* failure report carrying the message of the failure and with a failure
\* status (the claim as stated; a thrown value that is no Error is dropped
\* by the catch block).
C8_EveryFailureReported ==
  \A i \in Inv :
    raised[i] # <<>> =>
      /\ pc[i] = "done"
      /\ reports[i] = <<raised[i][1].message>>
      /\ exitCode[i] = 1

\* no two entries of a list of [name, ...] records share a name
DistinctNames(list) ==
  \A a, b \in 1..Len(list) : a # b => list[a].name # list[b].name

\* the step in which createRef answers invocation i for a name that exists
AnsweredForExistingName(i) ==
  /\ pc[i] = "createRef" /\ pc'[i] = "done"
  /\ \E k \in 1..Len(tags) : tags[k].name = newTag[i][1]

ConflictError == [isError |-> TRUE, message |-> MsgReferenceExists]

\* C9: for every interleaving of the invocations at most one createRef
\* succeeds for any tag name; an invocation whose computed name exists when
\* createRef answers creates nothing, emits no output and fails, and the
\* publish conflict is reported as a failure.
C9_OneCreationPerName ==
  /\ [](DistinctNames(createLog) /\ DistinctNames(tags))
  /\ [][\A i \in Inv :
          AnsweredForExistingName(i) =>
            /\ createLog' = createLog
            /\ output'[i] = <<>>
            /\ raised'[i] # <<>>
            /\ raised'[i][1] \in CollaboratorErrors \cup {ConflictError}
            /\ raised'[i] = <<ConflictError>> =>
                 reports'[i] = <<MsgReferenceExists>> /\ exitCode'[i] = 1
       ]_vars

\* C9 witness: an invocation failed with the publish conflict on a name that
\* another invocation created
C9_Witness ==
  \E i \in Inv :
    /\ raised[i] = <<ConflictError>>
    /\ \E k \in 1..Len(createLog) :
         createLog[k].inv # i /\ createLog[k].name = newTag[i][1]

\* tags after a step: the tags before it, unchanged, then at most one more
AppendOnly ==
  /\ Len(tags') \in {Len(tags), Len(tags) + 1}
  /\ \A k \in 1..Len(tags) : tags'[k] = tags[k]

\* C10: the tag set is append-only: no step of any invocation deletes a tag
\* or changes the commit it points at; a publish of a name that exists fails
\* and leaves the tags unchanged, also when it is repeated; no name is ever
\* held twice.
C10_TagsAppendOnly ==
  /\ [][/\ AppendOnly
        /\ \A i \in Inv :
             AnsweredForExistingName(i) => (tags' = tags /\ raised'[i] # <<>>)
      ]_vars
  /\ []DistinctNames(tags)

\* C10 witness: two invocations failed with the publish conflict on the
\* same name, a tag the repository held from the start and still holds
C10_Witness ==
  \E i, j \in Inv :
    /\ i # j
    /\ raised[i] = <<ConflictError>> /\ raised[j] = <<ConflictError>>
    /\ newTag[i] = newTag[j]
    /\ \E k \in 1..Len(tags) : tags[k].name = newTag[i][1] /\ tags[k].sha = 0

\* C11: an invocation triggered with a pull-request payload fetches that
\* pull request by number, validates its labels and stops: pulls.get is its
\* only collaborator call; it never resolves pull requests by commit, never
\* lists tags, computes no tag, creates no tag and emits no output, whether
\* the validation passes (no failure) or throws (one report).
C11_ValidateOnlyStops ==
  \A i \in Inv :
    (calls[i] # <<>> /\ calls[i][1] = "pulls.get") =>
      /\ calls[i] = <<"pulls.get">>
      /\ pc[i] \in {"pulls.get", "done"}
      /\ prs[i] = <<>> /\ bump[i] = ""
      /\ page[i] = 0 /\ acc[i] = <<>>
      /\ latestTag[i] = <<>> /\ newTag[i] = <<>>
      /\ output[i] = <<>>
      /\ CreatedBy(i) = {}
      /\ \A k \in 1..Len(tags) : tags[k].sha # ContextSha(i)
      /\ (pc[i] = "done" /\ raised[i] = <<>>) => (reports[i] = <<>> /\ exitCode[i] = 0)

\* C11 witness: one validate-only invocation ended without failure, another
\* with the missing-label error, in a repository that holds tags
C11_Witness ==
  \E i, j \in Inv :
    /\ calls[i] = <<"pulls.get">> /\ pc[i] = "done" /\ raised[i] = <<>>
    /\ calls[j] = <<"pulls.get">> /\ pc[j] = "done" /\ reports[j] = <<MsgMissingLabel>>
    /\ tags # <<>>

\* C12: every tag created by a merge invocation points at exactly the
\* commit that triggered the invocation, the commit whose pull request the
\* lookup resolved; the tags the repository held before stay on their commit.
C12_TagOnTriggeringCommit ==
  /\ \A k \in 1..Len(createLog) :
       LET i == createLog[k].inv
       IN  /\ createLog[k].sha = ContextSha(i)
           /\ calls[i] = <<"commits.pulls", "listTags", "createRef">>
           /\ prs[i] = <<1>>
           /\ \E t \in 1..Len(tags) :
                tags[t] = [name |-> createLog[k].name, sha |-> ContextSha(i)]
  /\ \A t \in 1..Len(tags) :
       \/ tags[t].sha = 0
       \/ \E k \in 1..Len(createLog) :
            createLog[k].name = tags[t].name /\ tags[t].sha = ContextSha(createLog[k].inv)

\* C12 witness: two invocations each created a tag on their own commit
C12_Witness ==
  \E a, b \in 1..Len(tags) :
    /\ tags[a].sha = ContextSha(1) /\ tags[b].sha = ContextSha(2)
    /\ Len(createLog) >= 2

\* the listings that hold the tags of a listing in any order
Reorderings(listing) ==
  LET n == Len(listing)
  IN  {[k \in 1..n |-> listing[f[k]]] :
         f \in {g \in [1..n -> 1..n] : \A a, b \in 1..n : a # b => g[a] # g[b]}}

\* C13 as stated: the name getLatestTag selects is the same for every order
\* of the listed tags, also when several names compare equal, and it is
\* never a name that is no valid semantic version.
C13_SameNameInAnyOrder ==
  selOut # <<>> =>
    /\ \A other \in Reorderings(selTags) :
         getLatestTagPaged(other, selOut[1].perPage) = selOut[1].value
    /\ selOut[1].value # <<>> => SemverValid(selOut[1].value[1])

\* C13 amended: the version getLatestTag selects is the same for every order
\* of the listed tags: every order selects a listed name that is a valid
\* semantic version and compares equal to the others' (the same name unless
\* several listed names denote that version), or every order selects none.
C13_SameVersionInAnyOrder ==
  selOut # <<>> =>
    LET out == selOut[1].value
    IN  /\ out # <<>> => (out[1] \in ValidNames(selTags))
        /\ \A other \in Reorderings(selTags) :
             LET res == getLatestTagPaged(other, selOut[1].perPage)
             IN  /\ (res = <<>>) <=> (out = <<>>)
                 /\ res # <<>> =>
                      /\ res[1] \in ValidNames(selTags)
                      /\ SemverCompare(res[1], out[1]) = 0
                      /\ (\A n \in ValidNames(selTags) :
                            SemverCompare(n, out[1]) = 0 => n = out[1]) => res = out

\* C13 witness: of v0.0.0 and 0.0.0, listed in this order, the first is
\* selected
C13_Witness ==
  /\ selOut # <<>>
  /\ Len(selTags) = 2
  /\ selTags[1].name = [v |-> TRUE, nums |-> <<0, 0, 0>>, pre |-> 0]
  /\ selTags[2].name = [v |-> FALSE, nums |-> <<0, 0, 0>>, pre |-> 0]
  /\ selOut[1].value = <<selTags[1].name>>

\* C15: the latest tag is chosen over the tags of all pages: for every page
\* size the result of getLatestTag, which filters page by page, is the
\* result of sorting the filtered single list of all tags.
C15_PagesDoNotMatter ==
  selOut # <<>> =>
    /\ selOut[1].value = SelectLatest(FilterPage(selTags))
    /\ \A size \in 1..(Len(selTags) + 1) :
         getLatestTagPaged(selTags, size) = selOut[1].value

\* C15 witness: a listing served in two pages whose selected tag is on the
\* second page, the first page holding a name that is no version
C15_Witness ==
  /\ selOut # <<>>
  /\ selOut[1].perPage = 1
  /\ Len(selTags) = 2
  /\ ~SemverValid(selTags[1].name)
  /\ selOut[1].value = <<selTags[2].name>>

\* s is an initial part of t
IsPrefix(s, t) == Len(s) <= Len(t) /\ \A k \in 1..Len(s) : s[k] = t[k]

\* C14: a merge invocation calls its collaborators in the order lookup, tag
\* listing, tag creation, each at most once; createRef is called only after
\* the pull request was resolved, its label validated and the listing
\* completed; after the first failure the invocation is over and makes no
\* further call.
C14_CallsInOrder ==
  /\ [](\A i \in Inv :
          /\ \/ IsPrefix(calls[i], <<"commits.pulls", "listTags", "createRef">>)
             \/ calls[i] = <<"pulls.get">>
          /\ Len(calls[i]) >= 2 =>
               (prs[i] = <<1>> /\ bump[i] \in {"patch", "minor", "major"})
          /\ Len(calls[i]) = 3 =>
               (page[i] = 0 /\ acc[i] = <<>> /\ newTag[i] # <<>>)
          /\ raised[i] # <<>> => (pc[i] = "done" /\ Len(raised[i]) = 1))
  /\ [][\A i \in Inv :
          /\ IsPrefix(calls[i], calls'[i]) /\ Len(calls'[i]) <= Len(calls[i]) + 1
          /\ (raised[i] # <<>> \/ raised'[i] # <<>>) => calls'[i] = calls[i]
       ]_vars

\* C14 witness: one invocation made the three calls and created its tag,
\* another failed in the listing and never called createRef
C14_Witness ==
  \E i, j \in Inv :
    /\ calls[i] = <<"commits.pulls", "listTags", "createRef">> /\ CreatedBy(i) # {}
    /\ calls[j] = <<"commits.pulls", "listTags">> /\ raised[j] # <<>> /\ pc[j] = "done"

\* C16: incrementTag is called only with a base tag that is a valid
\* semantic version and with a bump in {patch, minor, major}; it returns a
\* new tag every time and the increment-failure error is never raised.
C16_IncrementNeverFails ==
  \A i \in Inv :
    /\ latestTag[i] # <<>> =>
         /\ SemverValid(latestTag[i][1])
         /\ bump[i] \in {"patch", "minor", "major"}
         /\ newTag[i] # <<>>
    /\ \A k \in 1..Len(raised[i]) : raised[i][k].message # MsgIncrementFailure
    /\ \A k \in 1..Len(reports[i]) : reports[i][k] # MsgIncrementFailure

\* C16 witness: incrementTag was called with the base v1.0.0 in a repository
\* that also holds names that are no semantic versions
C16_Witness ==
  \E i \in Inv :
    /\ latestTag[i] # <<>> /\ latestTag[i][1].v
    /\ newTag[i] # <<>>
    /\ pc[i] = "createRef"

\* C17: with the invocations run one after another, the tag a merge
\* invocation computes from a base is strictly greater than every valid
\* semantic-version tag of the repository and is the name of no existing
\* tag, such an invocation never fails with the publish conflict, and the
\* tags created are strictly increasing (the claim as stated; the base the
\* code increments is the least tag, not the greatest).
C17_NewTagAboveEveryTag ==
  /\ \A i \in Inv :
       /\ (pc[i] = "createRef" /\ latestTag[i] # <<>>) =>
            /\ \A n \in ValidNames(tags) : SemverCompare(newTag[i][1], n) > 0
            /\ \A k \in 1..Len(tags) : tags[k].name # newTag[i][1]
       /\ latestTag[i] # <<>> => raised[i] # <<ConflictError>>
  /\ \A a, b \in 1..Len(createLog) :
       (a < b /\ SemverValid(createLog[a].name) /\ SemverValid(createLog[b].name)) =>
         SemverCompare(createLog[b].name, createLog[a].name) > 0

====
